---- MODULE Spec2Model ----
(***************************************************************************)
(* Model of the affinity migration generator (src/affinity.py) and of the  *)
(* score functions of the verification tool (src/affinity_test.py).        *)
(*                                                                         *)
(* Python values are modelled as follows:                                  *)
(*   dict            a function whose DOMAIN is the set of keys            *)
(*   set             a set                                                 *)
(*   list            a sequence                                            *)
(*   Optional[x]     <<>> for None, <<x>> for a value                      *)
(*   str of digits   the sequence of its decimal digits                    *)
(*   a file          <<>> when it does not exist, <<contents>> otherwise   *)
(***************************************************************************)
EXTENDS Integers, Sequences, FiniteSets, TLC

\* range(1001, max_char_id + 1): position 0 of every affinity array
BaseOffset == 1001

\* number of character ids of the build specification: BaseOffset .. BaseOffset + NumCharIds - 1
NumCharIds == 4

\* number of character ids of the run specification
NumRunCharIds == 3

CharIds == BaseOffset .. (BaseOffset + NumCharIds - 1)

RunCharIds == BaseOffset .. (BaseOffset + NumRunCharIds - 1)

\* relation types (succession_relation.relation_type)
RelTypes == {1, 2}

\* relation points (succession_relation.relation_point), signed
Points == {-5, 5}

VARIABLES
    rel_points,     \* master DB: relation type -> points
    chara_rel,      \* master DB: chara id -> set of relation types (ids with a member row only)
    max_char_id,    \* argument of compute_affinity_scores
    build,          \* "pending", "returned" or "KeyError": how compute_affinity_scores ended
    aff2,           \* compute_affinity_scores: the aff2 dict
    aff3,           \* compute_affinity_scores: the aff3 dict
    affinity_data,  \* the dict returned by compute_affinity_scores
    snapshot,       \* file data/affinity_definitions.json
    script,         \* file affinity_migration.sql
    outcome,        \* main: "idle", "aborted", "noop" or "written"
    plan,           \* main: "none", "noop", "full" or "incremental"
    last_char,      \* main: Optional[int] read from the previous script
    data_changed,   \* main: verdict of check_for_data_changes
    new_char_ids    \* main: list(range(last_char + 1, max_char_id + 1)) as a set

vars == <<rel_points, chara_rel, max_char_id, build, aff2, aff3, affinity_data,
          snapshot, script, outcome, plan, last_char, data_changed, new_char_ids>>

dbVars == <<rel_points, chara_rel>>

buildVars == <<max_char_id, build, aff2, aff3, affinity_data>>

fileVars == <<snapshot, script>>

runVars == <<outcome, plan, last_char, data_changed, new_char_ids>>

----------------------------------------------------------------------------
(* Python values *)

None == <<>>

Some(x) == <<x>>

NoFile == <<>>

EmptyDict == <<>>

Max(S) == CHOOSE x \in S : \A y \in S : y <= x

\* load_data: rel_points = {int(rt): int(rp)}, a dict over some of the relation types
RelPointMaps(types, points) == UNION {[D -> points] : D \in SUBSET types}

\* load_data: chara_rel[int(chara_id)].add(int(relation_type)), so every key has a non-empty set
CharaRelMaps(ids, sets) == UNION {[D -> sets] : D \in SUBSET ids}

NonEmptySets(types) == (SUBSET types) \ {{}}

\* chars = sorted(chara_rel.keys())
Chars(cr) == DOMAIN cr

\* rel_points[rt] raises KeyError for some rt of S
KeyErrorIn(rp, S) == ~(S \subseteq DOMAIN rp)

RECURSIVE SumPoints(_, _)
\* sum(rel_points[rt] for rt in common)
SumPoints(rp, S) ==
    IF S = {} THEN 0
    ELSE LET rt == CHOOSE x \in S : TRUE
         IN  rp[rt] + SumPoints(rp, S \ {rt})

\* dict.get(key, 0)
DictGet0(d, key) == IF key \in DOMAIN d THEN d[key] ELSE 0

----------------------------------------------------------------------------
(* compute_affinity_scores *)

\* slip: a == b is not skipped
Aff2PairsWithSelf(cr) ==
    {p \in Chars(cr) \X Chars(cr) : (cr[p[1]] \cap cr[p[2]]) # {}}

\* the (a, b) for which the aff2 loop reaches the sum
Aff2Pairs(cr) ==
    {p \in Chars(cr) \X Chars(cr) : p[1] # p[2] /\ (cr[p[1]] \cap cr[p[2]]) # {}}

BuildAff2Raises(rp, cr) ==
    \E p \in Aff2Pairs(cr) : KeyErrorIn(rp, cr[p[1]] \cap cr[p[2]])

\* slip: each pair is stored once, under the key with the lower id first
BuildAff2LowerIdFirst(rp, cr) ==
    LET score(p) == SumPoints(rp, cr[p[1]] \cap cr[p[2]])
    IN  [p \in {q \in Aff2Pairs(cr) : score(q) # 0 /\ q[1] < q[2]} |-> score(p)]

\* aff2[(a, b)] = score, only when score != 0
BuildAff2(rp, cr) ==
    LET score(p) == SumPoints(rp, cr[p[1]] \cap cr[p[2]])
    IN  [p \in {q \in Aff2Pairs(cr) : score(q) # 0} |-> score(p)]

\* the (a, b, c) for which the aff3 loop stores a score
Aff3Keys(cr) ==
    {t \in Chars(cr) \X Chars(cr) \X Chars(cr) :
        /\ t[1] # t[2]
        /\ (cr[t[1]] \cap cr[t[2]]) # {}
        /\ t[3] # t[2]}

BuildAff3Raises(rp, cr) ==
    \E t \in Aff3Keys(cr) :
        t[1] # t[3] /\ KeyErrorIn(rp, cr[t[1]] \cap cr[t[2]] \cap cr[t[3]])

\* slip: the a == c case is not forced to 0
BuildAff3NoSelfZero(rp, cr) ==
    [t \in Aff3Keys(cr) |-> SumPoints(rp, cr[t[1]] \cap cr[t[2]] \cap cr[t[3]])]

\* aff3[(a, b, c)] = 0 if a == c else sum(rel_points[rt] for rt in common)
BuildAff3(rp, cr) ==
    [t \in Aff3Keys(cr) |->
        IF t[1] = t[3] THEN 0
        ELSE SumPoints(rp, cr[t[1]] \cap cr[t[2]] \cap cr[t[3]])]

\* slip: right == left is not skipped
TriplesRightMayBeLeft(cr) ==
    {t \in Chars(cr) \X Chars(cr) \X Chars(cr) : t[2] # t[1] /\ t[3] # t[1]}

\* the (main, left, right) of the three nested loops over chars
Triples(cr) ==
    {t \in Chars(cr) \X Chars(cr) \X Chars(cr) :
        t[2] # t[1] /\ t[3] # t[1] /\ t[3] # t[2]}

\* slip: the pair score is looked up for right instead of left
BaseAffinityPairOfRight(a2, a3, main, left, right) ==
    DictGet0(a2, <<main, right>>) + DictGet0(a3, <<main, left, right>>)

\* base_affinity = aff2.get((main, left), 0) + aff3.get((main, left, right), 0)
BaseAffinity(a2, a3, main, left, right) ==
    DictGet0(a2, <<main, left>>) + DictGet0(a3, <<main, left, right>>)

\* one element of affinity_array, for chara_id
ArrayScore(cr, a2, a3, main, left, right, chara_id) ==
    IF chara_id \notin DOMAIN cr \/ chara_id = main THEN 0
    ELSE DictGet0(a2, <<chara_id, main>>)
         + DictGet0(a3, <<chara_id, main, left>>)
         + DictGet0(a3, <<chara_id, main, right>>)

\* slip: the array position is taken for the chara id one higher
AffinityArrayShifted(cr, a2, a3, main, left, right, maxId) ==
    [i \in 1 .. (maxId + 1 - BaseOffset) |->
        ArrayScore(cr, a2, a3, main, left, right, BaseOffset + i)]

\* affinity_array: one element for each chara_id of range(1001, max_char_id + 1)
AffinityArray(cr, a2, a3, main, left, right, maxId) ==
    [i \in 1 .. (maxId + 1 - BaseOffset) |->
        ArrayScore(cr, a2, a3, main, left, right, BaseOffset + i - 1)]

ComputeRaises(rp, cr) == BuildAff2Raises(rp, cr) \/ BuildAff3Raises(rp, cr)

\* the dict returned by compute_affinity_scores (when it does not raise)
ComputeAffinityScores(rp, cr, maxId) ==
    LET a2 == BuildAff2(rp, cr)
        a3 == BuildAff3(rp, cr)
    IN  [t \in Triples(cr) |->
            [affinity_scores |-> AffinityArray(cr, a2, a3, t[1], t[2], t[3], maxId),
             base_affinity |-> BaseAffinity(a2, a3, t[1], t[2], t[3])]]

----------------------------------------------------------------------------
(* get_aff2 and get_aff3 of the verification tool *)

\* chara_rel[a]: load_data returns a defaultdict(set), so an absent key gives set()
RelOf(cr, a) == IF a \in DOMAIN cr THEN cr[a] ELSE {}

\* aff2.get(key, 0) and aff3.get(key, 0) of the builder never raise
DictGetRaises(d, key) == FALSE

GetAff2Raises(rp, cr, a, b) ==
    a # b /\ KeyErrorIn(rp, RelOf(cr, a) \cap RelOf(cr, b))

GetAff2(rp, cr, a, b) ==
    IF a = b THEN 0
    ELSE LET common == RelOf(cr, a) \cap RelOf(cr, b)
         IN  IF common # {} THEN SumPoints(rp, common) ELSE 0

GetAff3Raises(rp, cr, a, b, c) ==
    /\ a # b
    /\ (RelOf(cr, a) \cap RelOf(cr, b)) # {}
    /\ a # c
    /\ KeyErrorIn(rp, RelOf(cr, a) \cap RelOf(cr, b) \cap RelOf(cr, c))

GetAff3(rp, cr, a, b, c) ==
    IF a = b THEN 0
    ELSE LET ab_common == RelOf(cr, a) \cap RelOf(cr, b)
         IN  IF ab_common = {} THEN 0
             ELSE IF a = c THEN 0
             ELSE SumPoints(rp, ab_common \cap RelOf(cr, c))

----------------------------------------------------------------------------
(* Specification SpecBuild: compute_affinity_scores applied to every input *)

InitBuild ==
    /\ rel_points \in RelPointMaps(RelTypes, Points)
    /\ chara_rel \in CharaRelMaps(CharIds, NonEmptySets(RelTypes))
    /\ max_char_id \in (BaseOffset - 1) .. (BaseOffset + NumCharIds - 1)
    /\ build = "pending"
    /\ aff2 = EmptyDict
    /\ aff3 = EmptyDict
    /\ affinity_data = EmptyDict
    /\ snapshot = NoFile
    /\ script = NoFile
    /\ outcome = "idle"
    /\ plan = "none"
    /\ last_char = None
    /\ data_changed = FALSE
    /\ new_char_ids = {}

Compute ==
    /\ build = "pending"
    /\ IF ComputeRaises(rel_points, chara_rel)
       THEN /\ build' = "KeyError"
            /\ UNCHANGED <<aff2, aff3, affinity_data>>
       ELSE /\ build' = "returned"
            /\ aff2' = BuildAff2(rel_points, chara_rel)
            /\ aff3' = BuildAff3(rel_points, chara_rel)
            /\ affinity_data' = ComputeAffinityScores(rel_points, chara_rel, max_char_id)
    /\ UNCHANGED <<max_char_id, dbVars, fileVars, runVars>>

NextBuild == Compute

SpecBuild == InitBuild /\ [][NextBuild]_vars

----------------------------------------------------------------------------
(* The two files a run reads and writes *)

RECURSIVE IntToStr(_)
\* str(k) of a non-negative int: its decimal digits
IntToStr(n) == IF n < 10 THEN <<n>> ELSE Append(IntToStr(n \div 10), n % 10)

RECURSIVE StrToInt(_)
\* int(s) of a string of decimal digits
StrToInt(s) ==
    IF Len(s) = 0 THEN 0
    ELSE 10 * StrToInt(SubSeq(s, 1, Len(s) - 1)) + s[Len(s)]

RECURSIVE SetToList(_)
\* list(v) of a set
SetToList(S) ==
    IF S = {} THEN <<>>
    ELSE LET x == CHOOSE y \in S : \A z \in S : y <= z
         IN  <<x>> \o SetToList(S \ {x})

\* set(v) of a list
ListToSet(l) == {l[i] : i \in 1 .. Len(l)}

\* json.dump of a dict with int keys: the keys become strings
JsonObject(d) ==
    [s \in {IntToStr(k) : k \in DOMAIN d} |->
        d[CHOOSE k \in DOMAIN d : IntToStr(k) = s]]

\* export_json: the contents written to data/affinity_definitions.json
ExportJson(rp, cr, maxId) ==
    [rel_points |-> JsonObject(rp),
     chara_rel |-> JsonObject([k \in DOMAIN cr |-> SetToList(cr[k])]),
     max_char_id |-> maxId]

\* {int(k): v for k, v in obj.items()}
IntKeyed(obj) ==
    [k \in {StrToInt(s) : s \in DOMAIN obj} |->
        obj[CHOOSE s \in DOMAIN obj : StrToInt(s) = k]]

\* a file that is not JSON: json.load raises (a JSONDecodeError)
InvalidJson == [malformed |-> "invalid json"]

\* a file that is JSON but no object: json.load returns a list
JsonArray == [malformed |-> "json array"]

\* with open(path) ... json.load(f) raises, which the except clause catches
JsonLoadRaises(file) == file = <<InvalidJson>>

\* prev_data.get raises AttributeError, outside the try block
CheckForDataChangesRaises(file) == file = <<JsonArray>>

\* slip: every existing snapshot counts as changed
CheckForDataChangesAlways(current_rel_points, current_chara_rel, file) ==
    file # NoFile

\* slip: the relation points are not compared
CheckForDataChangesIgnoringPoints(current_rel_points, current_chara_rel, file) ==
    IF file = NoFile THEN FALSE
    ELSE LET prev_data == file[1]
             obj == IntKeyed(prev_data.chara_rel)
             prev_chara_rel == [k \in DOMAIN obj |-> ListToSet(obj[k])]
         IN  \E char_id \in DOMAIN prev_chara_rel :
                 \/ char_id \notin DOMAIN current_chara_rel
                 \/ prev_chara_rel[char_id] # current_chara_rel[char_id]

\* check_for_data_changes
CheckForDataChanges(current_rel_points, current_chara_rel, file) ==
    IF file = NoFile THEN FALSE
    ELSE IF JsonLoadRaises(file) THEN FALSE
    ELSE LET prev_data == file[1]
             prev_rel_points == IntKeyed(prev_data.rel_points)
             obj == IntKeyed(prev_data.chara_rel)
             prev_chara_rel == [k \in DOMAIN obj |-> ListToSet(obj[k])]
         IN  IF prev_rel_points # current_rel_points THEN TRUE
             ELSE \E char_id \in DOMAIN prev_chara_rel :
                     \/ char_id \notin DOMAIN current_chara_rel
                     \/ prev_chara_rel[char_id] # current_chara_rel[char_id]

\* get_last_processed_character: the int of the "-- Last character: N" line
GetLastProcessedCharacter(file) ==
    IF file = NoFile THEN None
    ELSE IF file[1].last_character = <<>> THEN None
    ELSE Some(StrToInt(file[1].last_character))

\* if last_char: (None and 0 are false)
Truthy(last) == last # None /\ last[1] # 0

\* slip: > instead of >=
IsUpToDateStrict(last, maxId, changed) == last > maxId /\ ~changed

\* slip: the verdict of the change detector is not consulted
IsUpToDateIgnoringChange(last, maxId, changed) == last >= maxId

\* if last_char >= max_char_id and not data_changed: return
IsUpToDate(last, maxId, changed) == last >= maxId /\ ~changed

\* new_char_ids = list(range(last_char + 1, max_char_id + 1))
NewCharIds(last, maxId) == (last + 1) .. maxId

\* slip: an incremental script updates only the combinations of a new character
UpdateStatementsOfNewOnly(table, is_incremental, newIds) ==
    IF is_incremental
    THEN [t \in {k \in DOMAIN table : {k[1], k[2], k[3]} \cap newIds # {}} |-> table[t]]
    ELSE table

\* the UPDATE statements of the script: one for every item of affinity_data
UpdateStatements(table, is_incremental, newIds) == table

\* slip: an incremental script indexes every new array position
IndexStatementsOfEveryNewId(cr, is_incremental, newIds) ==
    IF is_incremental THEN newIds ELSE Chars(cr)

\* the chara ids that get a DROP INDEX / CREATE INDEX pair
IndexStatements(cr, is_incremental, newIds) ==
    IF is_incremental
    THEN {char_id \in newIds : char_id \in DOMAIN cr}
    ELSE Chars(cr)

\* the contents written to affinity_migration.sql
WriteMigration(cr, maxId, table, is_incremental, newIds) ==
    [type |-> IF is_incremental THEN "INCREMENTAL" ELSE "FULL INITIALIZATION",
     last_character |-> IntToStr(maxId),
     updates |-> UpdateStatements(table, is_incremental, newIds),
     indexes |-> IndexStatements(cr, is_incremental, newIds),
     default_index |-> ~is_incremental]

----------------------------------------------------------------------------
(* Specification Spec: runs of main, with changes of the master DB between runs *)

\* the master DBs of the run specification: every character is a member of relation
\* type 1, which has 5 points; relation type 2 has 5, -5 or no points
RunRelPointMaps == {rp \in RelPointMaps(RelTypes, Points) : 1 \in DOMAIN rp /\ rp[1] = 5}

RunCharaRelMaps == CharaRelMaps(RunCharIds, {S \in NonEmptySets(RelTypes) : 1 \in S})

Init ==
    /\ rel_points \in RunRelPointMaps
    /\ chara_rel \in RunCharaRelMaps
    /\ max_char_id = BaseOffset - 1
    /\ build = "pending"
    /\ aff2 = EmptyDict
    /\ aff3 = EmptyDict
    /\ affinity_data = EmptyDict
    /\ snapshot = NoFile
    /\ script = NoFile
    /\ outcome = "idle"
    /\ plan = "none"
    /\ last_char = None
    /\ data_changed = FALSE
    /\ new_char_ids = {}

\* main stops before compute_affinity_scores is called
MainStops(how, planned, last, changed, maxId) ==
    /\ outcome' = how
    /\ plan' = planned
    /\ last_char' = last
    /\ data_changed' = changed
    /\ new_char_ids' = {}
    /\ max_char_id' = maxId
    /\ build' = "pending"
    /\ aff2' = EmptyDict
    /\ aff3' = EmptyDict
    /\ affinity_data' = EmptyDict
    /\ UNCHANGED <<dbVars, fileVars>>

\* main from compute_affinity_scores on; write_fails: export_saddle_data or the open of
\* the script raises (an OSError), after export_json has written the snapshot
MainComputes(last, changed, maxId, is_incremental, newIds, write_fails) ==
    /\ plan' = IF is_incremental THEN "incremental" ELSE "full"
    /\ last_char' = last
    /\ data_changed' = changed
    /\ new_char_ids' = newIds
    /\ max_char_id' = maxId
    /\ IF ComputeRaises(rel_points, chara_rel)
       THEN /\ outcome' = "aborted"
            /\ build' = "KeyError"
            /\ aff2' = EmptyDict
            /\ aff3' = EmptyDict
            /\ affinity_data' = EmptyDict
            /\ UNCHANGED fileVars
       ELSE /\ build' = "returned"
            /\ aff2' = BuildAff2(rel_points, chara_rel)
            /\ aff3' = BuildAff3(rel_points, chara_rel)
            /\ affinity_data' = ComputeAffinityScores(rel_points, chara_rel, maxId)
            /\ snapshot' = <<ExportJson(rel_points, chara_rel, maxId)>>
            /\ IF write_fails
               THEN /\ outcome' = "aborted"
                    /\ UNCHANGED script
               ELSE /\ outcome' = "written"
                    /\ script' = <<WriteMigration(chara_rel, maxId, affinity_data',
                                                  is_incremental, newIds)>>
    /\ UNCHANGED dbVars

\* main, from load_data to its return or its uncaught exception
MainRun(write_fails) ==
    IF Chars(chara_rel) = {}
    THEN \* max(chars) raises ValueError
         MainStops("aborted", "none", None, FALSE, BaseOffset - 1)
    ELSE LET maxId == Max(Chars(chara_rel))
             last == GetLastProcessedCharacter(script)
         IN  IF Truthy(last)
             THEN IF CheckForDataChangesRaises(snapshot)
                  THEN MainStops("aborted", "none", last, FALSE, maxId)
                  ELSE LET changed == CheckForDataChanges(rel_points, chara_rel, snapshot)
                       IN  IF IsUpToDate(last[1], maxId, changed)
                           THEN MainStops("noop", "noop", last, changed, maxId)
                           ELSE MainComputes(last, changed, maxId, TRUE,
                                             NewCharIds(last[1], maxId), write_fails)
             ELSE MainComputes(last, FALSE, maxId, FALSE, {}, write_fails)

\* one run of main in which every write succeeds
Main == MainRun(FALSE)

\* between two runs the master DB is replaced by a game update
ChangeData ==
    /\ outcome # "idle"
    /\ rel_points' \in RunRelPointMaps
    /\ chara_rel' \in RunCharaRelMaps
    /\ <<rel_points', chara_rel'>> # <<rel_points, chara_rel>>
    /\ outcome' = "idle"
    /\ plan' = "none"
    /\ last_char' = None
    /\ data_changed' = FALSE
    /\ new_char_ids' = {}
    /\ max_char_id' = BaseOffset - 1
    /\ build' = "pending"
    /\ aff2' = EmptyDict
    /\ aff3' = EmptyDict
    /\ affinity_data' = EmptyDict
    /\ UNCHANGED fileVars

Next == Main \/ ChangeData

Spec == Init /\ [][Next]_vars

----------------------------------------------------------------------------
(* Specification SpecFaults: runs of main with damaged files and failing writes *)

\* the locals of the previous run are gone
BetweenRuns ==
    /\ outcome' = "idle"
    /\ plan' = "none"
    /\ last_char' = None
    /\ data_changed' = FALSE
    /\ new_char_ids' = {}
    /\ max_char_id' = BaseOffset - 1
    /\ build' = "pending"
    /\ aff2' = EmptyDict
    /\ aff3' = EmptyDict
    /\ affinity_data' = EmptyDict

\* data/affinity_definitions.json exists but is malformed when the next run reads it
DamageSnapshot ==
    /\ snapshot # NoFile
    /\ snapshot \notin {<<InvalidJson>>, <<JsonArray>>}
    /\ snapshot' \in {<<InvalidJson>>, <<JsonArray>>}
    /\ BetweenRuns
    /\ UNCHANGED <<dbVars, script>>

\* affinity_migration.sql exists but has no "-- Last character: N" line any more
DamageScript ==
    /\ script # NoFile
    /\ script[1].last_character # <<>>
    /\ script' = <<[script[1] EXCEPT !.last_character = <<>>]>>
    /\ BetweenRuns
    /\ UNCHANGED <<dbVars, snapshot>>

\* one run of main that raises between export_json and the first write of the script
MainWriteFails ==
    /\ MainRun(TRUE)
    /\ build' = "returned"

NextFaults == Main \/ ChangeData \/ DamageSnapshot \/ DamageScript \/ MainWriteFails

SpecFaults == Init /\ [][NextFaults]_vars

----------------------------------------------------------------------------
(* The data model the claims refer to: PairScore and TripleScore computed   *)
(* directly from the category sets and the weights.                         *)

RECURSIVE WeightSum(_, _)
WeightSum(rp, S) ==
    IF S = {} THEN 0 ELSE rp[Max(S)] + WeightSum(rp, S \ {Max(S)})

PairScore(rp, cr, a, b) ==
    IF a = b \/ (cr[a] \cap cr[b]) = {} THEN 0
    ELSE WeightSum(rp, cr[a] \cap cr[b])

TripleScore(rp, cr, a, b, c) ==
    IF a = b \/ (cr[a] \cap cr[b]) = {} \/ a = c THEN 0
    ELSE WeightSum(rp, {rt \in RelTypes : rt \in cr[a] /\ rt \in cr[b] /\ rt \in cr[c]})

Pair(a, b) == PairScore(rel_points, chara_rel, a, b)

Triple(a, b, c) == TripleScore(rel_points, chara_rel, a, b, c)

Returned == build = "returned"

----------------------------------------------------------------------------
(* Claims about compute_affinity_scores, checked under SpecBuild *)

\* C1: every entry (main, left, right) of the returned table has
\* base_affinity = PairScore(main, left) + TripleScore(main, left, right).
C1_BaseAffinity ==
    Returned =>
        \A t \in DOMAIN affinity_data :
            affinity_data[t].base_affinity = Pair(t[1], t[2]) + Triple(t[1], t[2], t[3])

\* an entry whose pair part and triple part are both non-zero
C1_Witness ==
    /\ Returned
    /\ \E t \in DOMAIN affinity_data :
        /\ Pair(t[1], t[2]) # 0
        /\ Triple(t[1], t[2], t[3]) # 0
        /\ Pair(t[1], t[2]) # Pair(t[1], t[3])
        /\ affinity_data[t].base_affinity = Pair(t[1], t[2]) + Triple(t[1], t[2], t[3])

\* C2: every entry's affinity_scores has max_char_id - 1001 + 1 slots; slot i is for
\* candidate 1001 + i and holds PairScore(candidate, main) + TripleScore(candidate,
\* main, left) + TripleScore(candidate, main, right), and exactly 0 when the candidate
\* is main or has no category membership.
C2_AffinityScores ==
    Returned =>
        \A t \in DOMAIN affinity_data :
            LET scores == affinity_data[t].affinity_scores
            IN  /\ Len(scores) = max_char_id - BaseOffset + 1
                /\ \A i \in 0 .. (Len(scores) - 1) :
                    LET candidate == BaseOffset + i
                    IN  scores[i + 1] =
                            IF candidate = t[1] \/ candidate \notin Chars(chara_rel)
                            THEN 0
                            ELSE Pair(candidate, t[1])
                                 + Triple(candidate, t[1], t[2])
                                 + Triple(candidate, t[1], t[3])

\* an entry with a slot of an absent id, the slot of main, and the slot of left made
\* of a non-zero pair score and a non-zero triple score
C2_Witness ==
    /\ Returned
    /\ \E t \in DOMAIN affinity_data :
        LET scores == affinity_data[t].affinity_scores
        IN  /\ Len(scores) = NumCharIds
            /\ \E i \in 1 .. Len(scores) : (BaseOffset + i - 1) \notin Chars(chara_rel)
            /\ \E i \in 1 .. Len(scores) :
                LET candidate == BaseOffset + i - 1
                IN  /\ candidate = t[2]
                    /\ Pair(candidate, t[1]) # 0
                    /\ Triple(candidate, t[1], t[3]) # 0
                    /\ scores[i] = Pair(candidate, t[1]) + Triple(candidate, t[1], t[3])
                    /\ scores[i] # 0
            /\ scores[t[1] - BaseOffset + 1] = 0

\* C3: the keys of the returned table are exactly the ordered triples of pairwise
\* distinct entities of the entity set; fewer than 3 entities give an empty table.
C3_TableKeys ==
    Returned =>
        LET chars == Chars(chara_rel)
            keys == DOMAIN affinity_data
        IN  /\ \A t \in keys :
                /\ t[1] \in chars /\ t[2] \in chars /\ t[3] \in chars
                /\ Cardinality({t[1], t[2], t[3]}) = 3
            /\ \A main \in chars : \A left \in chars \ {main} :
                \A right \in chars \ {main, left} : <<main, left, right>> \in keys
            /\ Cardinality(chars) < 3 => keys = {}

\* a table over exactly three entities: its six permutations
C3_Witness ==
    /\ Returned
    /\ Cardinality(Chars(chara_rel)) = 3
    /\ Cardinality(DOMAIN affinity_data) = 6

\* C4 as stated: for all a, b, c of the entity set the aff3 cache (0 for an absent
\* key) equals TripleScore(a, b, c) and get_aff3(a, b, c).
C4_CacheEqualsTripleScore ==
    Returned =>
        \A a \in Chars(chara_rel) : \A b \in Chars(chara_rel) : \A c \in Chars(chara_rel) :
            /\ DictGet0(aff3, <<a, b, c>>) = Triple(a, b, c)
            /\ DictGet0(aff3, <<a, b, c>>) = GetAff3(rel_points, chara_rel, a, b, c)

\* C4 amended: for all a, b, c of the entity set with c # b the aff3 cache (0 for an
\* absent key) equals TripleScore(a, b, c) and get_aff3(a, b, c); with c = b the cache
\* has no key and yields 0, where TripleScore and get_aff3 give the score of the
\* categories common to a and b.
C4_CacheEqualsTripleScoreUnlessCIsB ==
    Returned =>
        \A a \in Chars(chara_rel) : \A b \in Chars(chara_rel) : \A c \in Chars(chara_rel) :
            IF c # b
            THEN /\ DictGet0(aff3, <<a, b, c>>) = Triple(a, b, c)
                 /\ DictGet0(aff3, <<a, b, c>>) = GetAff3(rel_points, chara_rel, a, b, c)
            ELSE /\ <<a, b, c>> \notin DOMAIN aff3
                 /\ DictGet0(aff3, <<a, b, c>>) = 0
                 /\ Triple(a, b, c) = Pair(a, b)
                 /\ GetAff3(rel_points, chara_rel, a, b, c) = Pair(a, b)

\* a built cache with a non-zero score of three distinct entities, a stored (a, b, a)
\* key over a non-zero pair, and a non-zero TripleScore(a, b, b)
C4_Witness ==
    /\ Returned
    /\ \E a \in Chars(chara_rel) : \E b \in Chars(chara_rel) \ {a} :
        /\ \E c \in Chars(chara_rel) \ {a, b} : DictGet0(aff3, <<a, b, c>>) # 0
        /\ <<a, b, a>> \in DOMAIN aff3
        /\ Pair(a, b) # 0
        /\ Triple(a, b, b) # 0

\* C10 as stated: when an entity references a relation category without a weight,
\* compute_affinity_scores raises and returns no table.
C10_MissingWeightAborts ==
    (build # "pending" /\ \E e \in Chars(chara_rel) : KeyErrorIn(rel_points, chara_rel[e]))
        => build = "KeyError"

----------------------------------------------------------------------------
(* Claims about runs of main, checked under Spec *)

\* the table of the data model for the current master DB
ValidTriples ==
    {t \in Chars(chara_rel) \X Chars(chara_rel) \X Chars(chara_rel) :
        Cardinality({t[1], t[2], t[3]}) = 3}

DataModelEntry(t, maxId) ==
    [affinity_scores |->
        [i \in 1 .. (maxId - BaseOffset + 1) |->
            LET candidate == BaseOffset + i - 1
            IN  IF candidate = t[1] \/ candidate \notin Chars(chara_rel) THEN 0
                ELSE Pair(candidate, t[1]) + Triple(candidate, t[1], t[2])
                     + Triple(candidate, t[1], t[3])],
     base_affinity |-> Pair(t[1], t[2]) + Triple(t[1], t[2], t[3])]

DataModelTable ==
    [t \in ValidTriples |-> DataModelEntry(t, Max(Chars(chara_rel)))]

\* what the files hold, read without the code's parsers
ScriptLastCharacter == CHOOSE n \in 0 .. (BaseOffset + NumRunCharIds) :
                           IntToStr(n) = script[1].last_character

SnapshotPointsDiffer ==
    \E rt \in RelTypes :
        \/ (rt \in DOMAIN rel_points) # (IntToStr(rt) \in DOMAIN snapshot[1].rel_points)
        \/ /\ rt \in DOMAIN rel_points
           /\ IntToStr(rt) \in DOMAIN snapshot[1].rel_points
           /\ rel_points[rt] # snapshot[1].rel_points[IntToStr(rt)]

SnapshotChars == {c \in RunCharIds : IntToStr(c) \in DOMAIN snapshot[1].chara_rel}

SnapshotRelations(c) ==
    {rt \in RelTypes :
        \E i \in 1 .. Len(snapshot[1].chara_rel[IntToStr(c)]) :
            snapshot[1].chara_rel[IntToStr(c)][i] = rt}

\* C5: every run that writes a script, full or incremental, whatever the previous
\* maximum id and snapshot were, emits one update statement for every valid triple of
\* the current data, with the base_affinity and affinity_scores of the data model.
C5_TableIndependentOfPlan ==
    outcome = "written" =>
        /\ script # NoFile
        /\ script[1].updates = DataModelTable

\* an incremental run forced by a change, without new ids, that wrote a non-empty table
C5_Witness ==
    /\ outcome = "written"
    /\ plan = "incremental"
    /\ data_changed
    /\ new_char_ids = {}
    /\ DOMAIN script[1].updates # {}
    /\ \E t \in DOMAIN script[1].updates : script[1].updates[t].base_affinity # 0

\* C6: a step of main with no change detected follows the decision table: no previous
\* maximum id gives a full initialization; previous maximum N = current maximum gives a
\* no-op that calls no computation and leaves both files as they were; current maximum
\* greater than N gives an incremental run with new ids exactly N + 1 .. current maximum.
C6_PlannerWithoutChange ==
    [][(outcome' # "idle" /\ Chars(chara_rel) # {} /\ ~data_changed') =>
        LET current == Max(Chars(chara_rel))
        IN  IF script = NoFile
            THEN /\ plan' = "full"
                 /\ outcome' = "written" => script'[1].type = "FULL INITIALIZATION"
            ELSE LET N == ScriptLastCharacter
                 IN  /\ current = N =>
                            /\ plan' = "noop"
                            /\ outcome' = "noop"
                            /\ build' = "pending"
                            /\ script' = script
                            /\ snapshot' = snapshot
                     /\ current > N =>
                            /\ plan' = "incremental"
                            /\ new_char_ids' = {c \in RunCharIds : N < c /\ c <= current}
                            /\ outcome' = "written" => script'[1].type = "INCREMENTAL"
      ]_vars

\* an incremental run without a detected change that added two array positions
C6_Witness ==
    /\ outcome = "written"
    /\ plan = "incremental"
    /\ ~data_changed
    /\ last_char # None
    /\ Cardinality(new_char_ids) = 2
    /\ new_char_ids = {last_char[1] + 1, last_char[1] + 2}
    /\ Max(Chars(chara_rel)) = last_char[1] + 2

\* C7 as stated: with a previous maximum id and a detected change the run is never a
\* no-op and emits index-maintenance statements for every entity of the current set.
C7_ChangeForcesFullReindex ==
    (outcome # "idle" /\ last_char # None /\ data_changed) =>
        /\ plan # "noop"
        /\ outcome # "noop"
        /\ outcome = "written" => Chars(chara_rel) \subseteq script[1].indexes

\* C7 amended: with a previous maximum id N and a detected change the run is never a
\* no-op: it is an incremental run which, unless it aborts, emits an update statement
\* for every valid triple and index-maintenance statements only for the entities with
\* an id in (N, current maximum], none when the current maximum is not greater than N,
\* and no default index.
C7_ChangeForcesIncrementalRun ==
    (outcome # "idle" /\ last_char # None /\ data_changed) =>
        /\ plan = "incremental"
        /\ outcome \in {"written", "aborted"}
        /\ outcome = "written" =>
            /\ DOMAIN script[1].updates = ValidTriples
            /\ script[1].type = "INCREMENTAL"
            /\ script[1].indexes = {c \in Chars(chara_rel) : c > last_char[1]}
            /\ Max(Chars(chara_rel)) <= last_char[1] => script[1].indexes = {}
            /\ ~script[1].default_index

\* a run forced by a change, over three entities and without a new id: it wrote the
\* whole table and no index statement
C7_Witness ==
    /\ outcome = "written"
    /\ last_char # None
    /\ data_changed
    /\ Cardinality(Chars(chara_rel)) = 3
    /\ Max(Chars(chara_rel)) = last_char[1]
    /\ script[1].indexes = {}
    /\ Cardinality(DOMAIN script[1].updates) = 6

\* C8: check_for_data_changes returns true exactly when a snapshot exists and the
\* weights differ from the current ones, or an entity of the snapshot is absent from
\* the current data, or an entity of the snapshot has another category set now.
C8_ChangeDetector ==
    CheckForDataChanges(rel_points, chara_rel, snapshot) <=>
        /\ snapshot # NoFile
        /\ \/ SnapshotPointsDiffer
           \/ \E c \in SnapshotChars : c \notin Chars(chara_rel)
           \/ \E c \in SnapshotChars :
                c \in Chars(chara_rel) /\ SnapshotRelations(c) # chara_rel[c]

\* a run that detected a change although the weights and the set of entities are those
\* of the snapshot: only a category set differs (the run aborted, so the snapshot it
\* compared with is still there)
C8_Witness ==
    /\ outcome = "aborted"
    /\ last_char # None
    /\ data_changed
    /\ snapshot # NoFile
    /\ ~SnapshotPointsDiffer
    /\ SnapshotChars = Chars(chara_rel)
    /\ \E c \in SnapshotChars : SnapshotRelations(c) # chara_rel[c]
    /\ CheckForDataChanges(rel_points, chara_rel, snapshot)

\* C9 as stated: when a run finishes (it wrote a script or found nothing to do), the
\* most recently emitted table is the table of the current data.
C9_NoStaleTable ==
    outcome \in {"written", "noop"} =>
        /\ script # NoFile
        /\ script[1].updates = DataModelTable

----------------------------------------------------------------------------
(* Claims about damaged files and failing runs, checked under SpecFaults *)

SnapshotMalformed == snapshot \in {<<InvalidJson>>, <<JsonArray>>}

ScriptWithoutLastCharacter == script # NoFile /\ script[1].last_character = <<>>

\* C11 as stated: a run that finds a malformed snapshot, or a script without a parsable
\* 'Last character' line, does not fail on it and plans a full initialization.
C11_MalformedBaselineGivesFullInitialization ==
    [][(outcome' # "idle" /\ Chars(chara_rel) # {}
            /\ (SnapshotMalformed \/ ScriptWithoutLastCharacter))
        => plan' = "full"]_vars

\* C12 as stated: a run that fails before the script is written leaves the snapshot
\* file and the previous script as they were.
C12_FailedRunLeavesFilesUnchanged ==
    [][(outcome' = "aborted") => (snapshot' = snapshot /\ script' = script)]_vars

----------------------------------------------------------------------------
(* Claims about the score queries, checked under SpecBuild *)

\* C13 as stated: an aff2 or aff3 query with an argument that is absent from the
\* entity set raises an error, in the builder's lookups and in get_aff2 / get_aff3.
C13_AbsentIdIsAnError ==
    build # "pending" =>
        \A a \in CharIds : \A b \in CharIds :
            /\ (~({a, b} \subseteq Chars(chara_rel))) =>
                    /\ DictGetRaises(aff2, <<a, b>>)
                    /\ GetAff2Raises(rel_points, chara_rel, a, b)
            /\ \A c \in CharIds :
                (~({a, b, c} \subseteq Chars(chara_rel))) =>
                    /\ DictGetRaises(aff3, <<a, b, c>>)
                    /\ GetAff3Raises(rel_points, chara_rel, a, b, c)

----------------------------------------------------------------------------
(* Claims about the emitted script and about repeated runs, checked under Spec *)

\* C14: a written script records the current maximum id as 'Last character'; a full
\* script has one expression index for each entity id of the current set and the
\* default index; an incremental script has one expression index for exactly the
\* entities with an id in (previous maximum, current maximum] and no default index.
C14_IndexStatements ==
    outcome = "written" =>
        LET current == Max(Chars(chara_rel))
        IN  /\ ScriptLastCharacter = current
            /\ plan \in {"full", "incremental"}
            /\ plan = "full" =>
                /\ script[1].type = "FULL INITIALIZATION"
                /\ script[1].indexes = Chars(chara_rel)
                /\ script[1].default_index
            /\ plan = "incremental" =>
                /\ script[1].type = "INCREMENTAL"
                /\ script[1].indexes =
                        {c \in Chars(chara_rel) : last_char[1] < c /\ c <= current}
                /\ ~script[1].default_index

\* an incremental script over two new array positions of which one has no entity
C14_Witness ==
    /\ outcome = "written"
    /\ plan = "incremental"
    /\ Cardinality(new_char_ids) = 2
    /\ Cardinality(script[1].indexes) = 1
    /\ \E c \in new_char_ids : c \notin Chars(chara_rel)
    /\ ScriptLastCharacter = Max(Chars(chara_rel))

\* C17: a run that follows a run which wrote the script and the snapshot, on unchanged
\* data, reads back the recorded maximum id, detects no change, and is a no-op that
\* leaves both files as they are.
C17_SecondRunIsNoOp ==
    [][(outcome = "written" /\ outcome' # "idle") =>
        /\ outcome' = "noop"
        /\ plan' = "noop"
        /\ last_char' = Some(Max(Chars(chara_rel)))
        /\ ~data_changed'
        /\ build' = "pending"
        /\ script' = script
        /\ snapshot' = snapshot
      ]_vars

\* a no-op run on the data the files were written from, with a non-empty table
C17_Witness ==
    /\ outcome = "noop"
    /\ last_char = Some(Max(Chars(chara_rel)))
    /\ ~SnapshotPointsDiffer
    /\ SnapshotChars = Chars(chara_rel)
    /\ \A c \in SnapshotChars : SnapshotRelations(c) = chara_rel[c]
    /\ script[1].updates = DataModelTable
    /\ DOMAIN script[1].updates # {}

----------------------------------------------------------------------------
(* Claims about the pair and triple scores, checked under SpecBuild *)

\* C15: the pair score the builder looks up in its cache (0 for an absent key) is
\* symmetric: aff2(a, b) = aff2(b, a) for all entities a and b.
C15_Aff2Symmetric ==
    Returned =>
        \A a \in Chars(chara_rel) : \A b \in Chars(chara_rel) :
            DictGet0(aff2, <<a, b>>) = DictGet0(aff2, <<b, a>>)

\* a cache with a non-zero pair score stored under both orders
C15_Witness ==
    /\ Returned
    /\ \E a \in Chars(chara_rel) : \E b \in Chars(chara_rel) :
        /\ a < b
        /\ <<a, b>> \in DOMAIN aff2
        /\ <<b, a>> \in DOMAIN aff2
        /\ aff2[<<a, b>>] # 0

\* C16: aff2(a, a) = 0 and aff3(a, b, a) = 0 for all entities a and b, in the builder's
\* caches and in get_aff2 / get_aff3 (which do not raise there either).
C16_SelfExclusion ==
    /\ build # "pending" =>
        \A a \in Chars(chara_rel) : \A b \in Chars(chara_rel) :
            /\ ~GetAff2Raises(rel_points, chara_rel, a, a)
            /\ GetAff2(rel_points, chara_rel, a, a) = 0
            /\ ~GetAff3Raises(rel_points, chara_rel, a, b, a)
            /\ GetAff3(rel_points, chara_rel, a, b, a) = 0
    /\ Returned =>
        \A a \in Chars(chara_rel) : \A b \in Chars(chara_rel) :
            /\ DictGet0(aff2, <<a, a>>) = 0
            /\ DictGet0(aff3, <<a, b, a>>) = 0

\* a cache that stores the key (a, b, a) for a pair with a non-zero score, where the
\* categories of a alone have a non-zero weight sum
C16_Witness ==
    /\ Returned
    /\ \E a \in Chars(chara_rel) : \E b \in Chars(chara_rel) \ {a} :
        /\ <<a, b, a>> \in DOMAIN aff3
        /\ aff3[<<a, b, a>>] = 0
        /\ Pair(a, b) # 0
        /\ chara_rel[a] \subseteq DOMAIN rel_points
        /\ WeightSum(rel_points, chara_rel[a]) # 0

====
